---- MODULE Spec2Model ----
(***************************************************************************)
(* A model of poetry's "self update" command                               *)
(* (src/poetry/console/commands/self/update.py).                           *)
(*                                                                         *)
(* One run of SelfUpdateCommand.handle() is modelled as a sequential       *)
(* process whose position is pc.  The installation under POETRY_HOME is    *)
(* three pieces of on-disk state: lib, lib-backup and the launcher in bin. *)
(* The release catalog, the two HTTP endpoints and the disk are the        *)
(* environment: what they answer, and where they fail, is chosen freely.   *)
(***************************************************************************)
EXTENDS Integers, Sequences, FiniteSets, TLC

(* Bounds of the model. *)
MaxRel == 3         \* release numbers 1..MaxRel, each with a prerelease
MaxPackages == 3    \* candidates the catalog returns

----------------------------------------------------------------------------
(* Versions and packages *)

\* A version is a release number and a prerelease marker: 1.3.0-alpha is
\* [rel |-> 3, pre |-> TRUE], and it precedes 1.3.0.
Versions == [rel : 1..MaxRel, pre : BOOLEAN]

Packages == [version : Versions]

\* x.version < y.version
VersionLess(x, y) == \/ x.rel < y.rel
                     \/ (x.rel = y.rel /\ x.pre /\ ~y.pre)

\* package.is_prerelease()
IsPrerelease(package) == package.version.pre

\* The comparison of lines 101-103, reversed on purpose by a plausible slip.
CmpAscending(x, y) ==
    IF x.version = y.version THEN 0
    ELSE IF VersionLess(x.version, y.version) THEN -1 ELSE 1

\* lambda x, y: 0 if x.version == y.version
\*              else int(x.version < y.version or -1)
Cmp(x, y) ==
    IF x.version = y.version THEN 0
    ELSE IF VersionLess(x.version, y.version) THEN 1 ELSE -1

\* list.sort(key=cmp_to_key(Cmp)) is stable: an element goes before the first
\* one it compares strictly less than.
RECURSIVE Insert(_, _)
Insert(sorted, x) ==
    IF sorted = << >> THEN <<x>>
    ELSE IF Cmp(x, Head(sorted)) < 0 THEN <<x>> \o sorted
    ELSE <<Head(sorted)>> \o Insert(Tail(sorted), x)

RECURSIVE SortPackages(_)
SortPackages(pkgs) ==
    IF pkgs = << >> THEN << >>
    ELSE Insert(SortPackages(SubSeq(pkgs, 1, Len(pkgs) - 1)), pkgs[Len(pkgs)])

\* The loop of lines 107-119 without its prerelease test.
FirstPackage(pkgs, allowPrereleases) ==
    IF pkgs = << >> THEN << >> ELSE <<Head(pkgs)>>

\* The loop of lines 107-119: << >> is None, <<p>> is the release p.
RECURSIVE SelectRelease(_, _)
SelectRelease(pkgs, allowPrereleases) ==
    IF pkgs = << >> THEN << >>
    ELSE IF IsPrerelease(Head(pkgs))
         THEN IF allowPrereleases THEN <<Head(pkgs)>>
              ELSE SelectRelease(Tail(pkgs), allowPrereleases)
         ELSE <<Head(pkgs)>>

\* What the catalog may return: up to MaxPackages packages, one per version.
CatalogAnswers ==
    { s \in UNION { [1..n -> Packages] : n \in 0..MaxPackages } :
        \A i, j \in 1..Len(s) : i # j => s[i] # s[j] }

----------------------------------------------------------------------------
(* Directory trees *)

FileNames == {"f1", "f2", "f3"}

\* A directory: whether it exists, and what each file name holds ("none":
\* no such file).
NoFiles == [f \in FileNames |-> "none"]
NoDir == [exists |-> FALSE, files |-> NoFiles]

\* The tree installed before the run, and a backup left by an interrupted run.
OldTree == [exists |-> TRUE,
            files |-> [f \in FileNames |-> IF f \in {"f1", "f2"} THEN "old" ELSE "none"]]
StaleTree == [exists |-> TRUE,
              files |-> [f \in FileNames |-> IF f = "f1" THEN "stale" ELSE "none"]]

\* The trees a copy or a removal of dir leaves behind when it fails partway:
\* the directory is there and holds some of the files.
PartialTrees(dir) ==
    { [exists |-> TRUE,
       files |-> [f \in FileNames |-> IF f \in kept THEN dir.files[f] ELSE "none"]] :
        kept \in SUBSET { f \in FileNames : dir.files[f] # "none" } }

\* shutil.copytree(src, dst) that runs to the end: dst becomes a copy of src.
\* It raises FileExistsError, and copies nothing, when dst already exists.
CopyTreeRaisesExists(dst) == dst.exists

\* An extraction that puts the member in place of whatever dir held.
ExtractReplacing(dir, name, content) ==
    [exists |-> TRUE, files |-> [NoFiles EXCEPT ![name] = content]]

\* tarfile extraction of one member under dir: missing directories are made,
\* a file of the same name is overwritten, other files are left alone.
ExtractInto(dir, name, content) ==
    [exists |-> TRUE, files |-> [dir.files EXCEPT ![name] = content]]

----------------------------------------------------------------------------
(* The release archive and its checksum *)

\* The bytes an archive response can stream, as blocks of block_size.
Payloads == { <<"x", "y">>, <<"x", "z">> }

\* The archive's members in tar order; every member carries the bytes of the
\* archive it came from, so trees of different archives differ.
ArchiveMembers == <<"f2", "f3">>

MemberContent(payload) == IF payload = <<"x", "y">> THEN "new" ELSE "other"

ArchiveTree(payload) ==
    [exists |-> TRUE,
     files |-> [f \in FileNames |->
                  IF \E i \in 1..Len(ArchiveMembers) : ArchiveMembers[i] = f
                  THEN MemberContent(payload) ELSE "none"]]

\* hashlib's hexdigest(): lower-case hexadecimal digits, one per block here
\* (the digest is taken to be collision-free).
HexDigit(block) == CASE block = "x" -> "a" [] block = "y" -> "b" [] OTHER -> "1"

HexDigest(bytes) == [i \in 1..Len(bytes) |-> HexDigit(bytes[i])]

\* str.upper() and str.lower() on the characters used.
UpperChar(c) == CASE c = "a" -> "A" [] c = "b" -> "B" [] OTHER -> c
LowerChar(c) == CASE c = "A" -> "a" [] c = "B" -> "b" [] OTHER -> c
Upper(s) == [i \in 1..Len(s) |-> UpperChar(s[i])]
Lower(s) == [i \in 1..Len(s) |-> LowerChar(s[i])]

Whitespace == {" ", "\n"}

\* str.strip()
RECURSIVE LStrip(_)
LStrip(s) == IF s # << >> /\ Head(s) \in Whitespace THEN LStrip(Tail(s)) ELSE s

RECURSIVE RStrip(_)
RStrip(s) == IF s # << >> /\ s[Len(s)] \in Whitespace
             THEN RStrip(SubSeq(s, 1, Len(s) - 1)) ELSE s

Strip(s) == RStrip(LStrip(s))

\* Bodies the .sha256sum endpoint may serve: the digest of some archive, as
\* hashlib prints it, in upper case, or followed by a newline.
ChecksumBodies ==
    UNION { { HexDigest(p), Upper(HexDigest(p)), <<" ">> \o HexDigest(p) \o <<"\n">> } :
              p \in Payloads }

\* A digest test that accepts everything.
HashesAlwaysMatch(sum, digest) == TRUE

\* not (checksum != sha.hexdigest()), line 223
HashesMatch(sum, digest) == sum = digest

\* The Content-Length header of the archive response: << >> when the server
\* sends none (meta["Content-Length"] is then None), else <<n>>.
ContentLengths(payload) == { << >>, <<Len(payload)>> }

----------------------------------------------------------------------------
(* _which_python() *)

\* allowed_executables, lines 296-298
AllowedExecutables(onWindows) ==
    IF onWindows THEN <<"python", "python3", "py.exe -3", "py.exe -2">>
    ELSE <<"python", "python3">>

\* What "<executable> --version" may print: "Python 2.7.18", "Python 3.9.1",
\* "Python 3.9" (no third component) and a line that is no version at all.
RawVersions ==
    { [name |-> "Python", major |-> 2, minor |-> 7, patch |-> "18"],
      [name |-> "Python", major |-> 3, minor |-> 9, patch |-> "1"],
      [name |-> "Python", major |-> 3, minor |-> 9, patch |-> ""],
      [name |-> "pyenv", major |-> 0, minor |-> 0, patch |-> ""] }

\* One probe: check_output raised CalledProcessError (ran is FALSE) or
\* returned raw.
Outcomes ==
    { [ran |-> FALSE, raw |-> [name |-> "", major |-> 0, minor |-> 0, patch |-> ""]] }
        \cup { [ran |-> TRUE, raw |-> r] : r \in RawVersions }

ProbeOutcomes(onWindows) ==
    [1..Len(AllowedExecutables(onWindows)) -> Outcomes]

\* version_matcher.match(raw_version.strip()), line 301 and 311:
\* ^Python (\d+)\.(\d+)\..+$
VersionMatches(raw) == raw.name = "Python" /\ raw.patch # ""

\* tuple(map(int, match.groups())) >= (3, 0), line 312
AtLeastPython3(raw) ==
    raw.major > 3 \/ (raw.major = 3 /\ raw.minor >= 0)

\* The loop of lines 303-318 with the test of line 316 left out: the
\* fallback is the last executable that ran.
RECURSIVE WhichPythonLastFallback(_, _, _, _)
WhichPythonLastFallback(executables, outcomes, i, fallback) ==
    IF i > Len(executables)
    THEN IF fallback = << >> THEN "python" ELSE fallback[1]
    ELSE IF ~outcomes[i].ran
    THEN WhichPythonLastFallback(executables, outcomes, i + 1, fallback)
    ELSE IF VersionMatches(outcomes[i].raw) /\ AtLeastPython3(outcomes[i].raw)
    THEN executables[i]
    ELSE WhichPythonLastFallback(executables, outcomes, i + 1, <<executables[i]>>)

\* The loop of lines 303-324 from candidate i on; fallback is << >> for None.
RECURSIVE WhichPythonFrom(_, _, _, _)
WhichPythonFrom(executables, outcomes, i, fallback) ==
    IF i > Len(executables)
    THEN IF fallback = << >> THEN "python" ELSE fallback[1]
    ELSE IF ~outcomes[i].ran
    THEN WhichPythonFrom(executables, outcomes, i + 1, fallback)
    ELSE IF VersionMatches(outcomes[i].raw) /\ AtLeastPython3(outcomes[i].raw)
    THEN executables[i]
    ELSE WhichPythonFrom(executables, outcomes, i + 1,
                         IF fallback = << >> THEN <<executables[i]>> ELSE fallback)

\* _which_python(), lines 290-324
WhichPython(executables, outcomes) ==
    WhichPythonFrom(executables, outcomes, 1, << >>)

----------------------------------------------------------------------------
(* State *)

VARIABLES
    pc,             \* where the run of handle() is
    underHome,      \* Path(__file__) is below self.home
    preview,        \* the --preview option
    currentVersion, \* poetry.__version__
    packages,       \* handle(): packages
    release,        \* handle(): release; << >> is None
    lib,            \* $POETRY_HOME/lib
    libBackup,      \* $POETRY_HOME/lib-backup
    bin,            \* $POETRY_HOME/bin/poetry: "old", "new" or "partial"
    checksum,       \* _update(): checksum, after strip()
    response,       \* _update(): r, the archive response
    size,           \* _update(): size; << >> before it is set
    received,       \* the bytes written to the temporary file and fed to sha
    extracted,      \* members of the archive extracted so far
    tmpdir,         \* the poetry-updater- temporary directory exists
    failure,        \* the exception _update() raised, "none" if none
    error,          \* the exception that leaves handle(), "none" if none
    message,        \* the last line handle() printed
    lib0,           \* history: lib when the run began
    libBackup0,     \* history: lib-backup when the run began
    catalogQueries, \* history: calls of repo.find_packages
    httpRequests,   \* history: calls of urlopen
    verified,       \* history: line 223 found the hashes equal
    updateCalled,   \* history: update() was entered
    windows,        \* poetry.utils._compat.WINDOWS
    probes,         \* _which_python(): what "<executable> --version" did, per candidate
    python,         \* the interpreter named in the launcher, "" before make_bin()
    makeBinCalled   \* history: make_bin() was entered

vars == <<pc, underHome, preview, currentVersion, packages, release, lib,
          libBackup, bin, checksum, response, size, received, extracted,
          tmpdir, failure, error, message, lib0, libBackup0, catalogQueries,
          httpRequests, verified, updateCalled, windows, probes, python,
          makeBinCalled>>

launcher == <<windows, probes, python, makeBinCalled>>
inputs == <<underHome, preview, currentVersion, lib0, libBackup0>>
selection == <<packages, release>>
disk == <<lib, libBackup, bin>>
download == <<checksum, response, size, received, extracted, tmpdir>>
history == <<catalogQueries, httpRequests, verified, updateCalled>>

NoResponse == [payload |-> << >>, length |-> << >>]

Init ==
    /\ pc = "handle"
    /\ underHome \in BOOLEAN
    /\ preview \in BOOLEAN
    /\ currentVersion \in Versions
    /\ packages = << >>
    /\ release = << >>
    /\ lib \in {NoDir, OldTree}
    /\ libBackup \in {NoDir, StaleTree}
    /\ bin = "old"
    /\ checksum = << >>
    /\ response = NoResponse
    /\ size = << >>
    /\ received = << >>
    /\ extracted = 0
    /\ tmpdir = FALSE
    /\ failure = "none"
    /\ error = "none"
    /\ message = ""
    /\ lib0 = lib
    /\ libBackup0 = libBackup
    /\ catalogQueries = 0
    /\ httpRequests = 0
    /\ verified = FALSE
    /\ updateCalled = FALSE
    /\ windows \in BOOLEAN
    /\ probes = << >>
    /\ python = ""
    /\ makeBinCalled = FALSE

----------------------------------------------------------------------------
(* handle() *)

\* _update() raises e and the temporary directory is left behind.
RaiseLeavingTmpdir(e) ==
    /\ failure' = e
    /\ tmpdir' = tmpdir
    /\ pc' = "except"

\* _update() raises e: the with block of line 206 removes the temporary
\* directory on the way out and control reaches the except clause of line 145.
Raise(e) ==
    /\ failure' = e
    /\ tmpdir' = FALSE
    /\ pc' = "except"

\* An installation check that lets every installation through.
SkipInstallationCheck ==
    /\ pc = "handle"
    /\ pc' = "find_packages"
    /\ UNCHANGED <<launcher, inputs, selection, disk, download, failure, error, message,
                   history>>

\* Line 85, _check_recommended_installation(): Path(__file__) must be
\* relative to self.home.
CheckRecommendedInstallation ==
    /\ pc = "handle"
    /\ IF underHome
       THEN pc' = "find_packages" /\ error' = error
       ELSE pc' = "raised" /\ error' = "PoetrySimpleConsoleException"
    /\ UNCHANGED <<launcher, inputs, selection, disk, download, failure, message, history>>

\* Lines 87-97: the catalog is asked once; an empty answer ends the run.
FindPackages ==
    /\ pc = "find_packages"
    /\ \E answer \in CatalogAnswers :
        /\ packages' = answer
        /\ IF answer = << >>
           THEN /\ message' = "No release found for the specified version"
                /\ pc' = "done"
           ELSE /\ message' = message
                /\ pc' = "sort"
    /\ catalogQueries' = catalogQueries + 1
    /\ UNCHANGED <<launcher, inputs, release, disk, download, failure, error,
                   httpRequests, verified, updateCalled>>

\* Lines 99-129 without the test of line 125.
ChooseReleaseEvenIfCurrent ==
    /\ pc = "sort"
    /\ packages' = SortPackages(packages)
    /\ release' = SelectRelease(packages', preview)
    /\ IF release' = << >>
       THEN /\ message' = "No new release found"
            /\ pc' = "done"
            /\ updateCalled' = updateCalled
       ELSE /\ message' = message
            /\ pc' = "update"
            /\ updateCalled' = TRUE
    /\ UNCHANGED <<launcher, inputs, disk, download, failure, error, catalogQueries,
                   httpRequests, verified>>

\* Lines 99-129: sort, pick the release, and call update() unless there is
\* none or it is the running version.
ChooseRelease ==
    /\ pc = "sort"
    /\ packages' = SortPackages(packages)
    /\ release' = SelectRelease(packages', preview)
    /\ IF release' = << >>
       THEN /\ message' = "No new release found"
            /\ pc' = "done"
            /\ updateCalled' = updateCalled
       ELSE IF release'[1].version = currentVersion
       THEN /\ message' = "You are using the latest version"
            /\ pc' = "done"
            /\ updateCalled' = updateCalled
       ELSE /\ message' = message
            /\ pc' = "update"
            /\ updateCalled' = TRUE
    /\ UNCHANGED <<launcher, inputs, disk, download, failure, error, catalogQueries,
                   httpRequests, verified>>

----------------------------------------------------------------------------
(* update() *)

\* Lines 132-134 without lines 135-136: a lib-backup that is there stays.
KeepStaleBackup ==
    /\ pc = "update"
    /\ message' = "Updating to"
    /\ packages' = << >>
    /\ pc' = "backup"
    /\ UNCHANGED <<launcher, inputs, release, disk, download, failure, error, history>>

\* Lines 132-136: a lib-backup that is already there is removed.  handle()'s
\* list of packages is not read again from here on and is dropped.
RemoveStaleBackup ==
    /\ pc = "update"
    /\ message' = "Updating to"
    /\ libBackup' = IF libBackup.exists THEN NoDir ELSE libBackup
    /\ packages' = << >>
    /\ pc' = "backup"
    /\ UNCHANGED <<launcher, inputs, release, lib, bin, download, failure, error, history>>

\* Lines 139-140: copytree(lib, lib_backup), outside the try block.  A copy
\* that fails leaves what it had copied and the exception leaves update().
BackupLib ==
    /\ pc = "backup"
    /\ IF ~lib.exists
       THEN /\ pc' = "checksum"
            /\ UNCHANGED <<libBackup, error>>
       ELSE \/ /\ libBackup' = lib
               /\ pc' = "rmtree"
               /\ error' = error
            \/ \E t \in PartialTrees(lib) :
               /\ libBackup' = t
               /\ error' = "CopyError"
               /\ pc' = "raised"
    /\ UNCHANGED <<launcher, inputs, selection, lib, bin, download, failure, message, history>>

\* Line 141 left out: lib stays where it is.
KeepLib ==
    /\ pc = "rmtree"
    /\ pc' = "checksum"
    /\ UNCHANGED <<launcher, inputs, selection, disk, download, failure, error, message,
                   history>>

\* Line 141: rmtree(lib), outside the try block.
RemoveLib ==
    /\ pc = "rmtree"
    /\ \/ /\ lib' = NoDir
          /\ pc' = "checksum"
          /\ error' = error
       \/ \E t \in PartialTrees(lib) :
          /\ lib' = t
          /\ error' = "RemoveError"
          /\ pc' = "raised"
    /\ UNCHANGED <<launcher, inputs, selection, libBackup, bin, download, failure, message,
                   history>>

----------------------------------------------------------------------------
(* _update() *)

\* Lines 176-184: GET <release>.sha256sum; 404 becomes RuntimeError, any other
\* HTTPError is re-raised, a body is decoded and stripped.
FetchChecksum ==
    /\ pc = "checksum"
    /\ httpRequests' = httpRequests + 1
    /\ \/ /\ Raise("ChecksumNotFound")
          /\ checksum' = checksum
       \/ /\ Raise("HTTPError")
          /\ checksum' = checksum
       \/ \E body \in ChecksumBodies :
          /\ checksum' = Strip(body)
          /\ pc' = "archive"
          /\ UNCHANGED <<failure, tmpdir>>
    /\ UNCHANGED <<launcher, inputs, selection, disk, response, size, received, extracted,
                   error, message, catalogQueries, verified, updateCalled>>

\* Lines 187-194: GET <release>.tar.gz.
FetchArchive ==
    /\ pc = "archive"
    /\ httpRequests' = httpRequests + 1
    /\ \/ /\ Raise("ArchiveNotFound")
          /\ response' = response
       \/ /\ Raise("HTTPError")
          /\ response' = response
       \/ \E p \in Payloads : \E n \in ContentLengths(p) :
          /\ response' = [payload |-> p, length |-> n]
          /\ pc' = "content_length"
          /\ UNCHANGED <<failure, tmpdir>>
    /\ UNCHANGED <<launcher, inputs, selection, disk, checksum, size, received, extracted,
                   error, message, catalogQueries, verified, updateCalled>>

\* Lines 196-208: size = int(meta["Content-Length"]) raises TypeError when the
\* header is missing; otherwise the progress bar gets its maximum and the
\* temporary directory and file are created.
StartDownload ==
    /\ pc = "content_length"
    /\ IF response.length = << >>
       THEN /\ Raise("TypeError")
            /\ size' = size
       ELSE /\ size' = response.length
            /\ tmpdir' = TRUE
            /\ pc' = "download"
            /\ failure' = failure
    /\ UNCHANGED <<launcher, inputs, selection, disk, checksum, response, received,
                   extracted, error, message, history>>

\* Lines 209-218: one block is read, written to the file and hashed.
ReadBlock ==
    /\ pc = "download"
    /\ Len(received) < Len(response.payload)
    /\ received' = Append(received, response.payload[Len(received) + 1])
    /\ UNCHANGED <<launcher, pc, inputs, selection, disk, checksum, response, size,
                   extracted, tmpdir, failure, error, message, history>>

\* Line 210: r.read() raises, the connection broke.
ReadFails ==
    /\ pc = "download"
    /\ Len(received) < Len(response.payload)
    /\ Raise("ConnectionError")
    /\ UNCHANGED <<launcher, inputs, selection, disk, checksum, response, size, received,
                   extracted, error, message, history>>

\* Lines 211-228: the stream is at its end and the hashes are compared.
CheckHashes ==
    /\ pc = "download"
    /\ Len(received) = Len(response.payload)
    /\ IF HashesMatch(checksum, HexDigest(received))
       THEN /\ verified' = TRUE
            /\ pc' = "extract"
            /\ UNCHANGED <<failure, tmpdir>>
       ELSE /\ Raise("HashMismatch")
            /\ verified' = verified
    /\ UNCHANGED <<launcher, inputs, selection, disk, checksum, response, size, received,
                   extracted, error, message, catalogQueries, httpRequests,
                   updateCalled>>

\* Lines 230-233: extractall(str(self.lib)) writes the next member into lib.
ExtractMember ==
    /\ pc = "extract"
    /\ extracted < Len(ArchiveMembers)
    /\ lib' = ExtractInto(lib, ArchiveMembers[extracted + 1],
                          MemberContent(response.payload))
    /\ extracted' = extracted + 1
    /\ UNCHANGED <<launcher, pc, inputs, selection, libBackup, bin, checksum, response,
                   size, received, tmpdir, failure, error, message, history>>

\* Lines 230-235: opening the archive or extracting the next member raises.
ExtractFails ==
    /\ pc = "extract"
    /\ extracted < Len(ArchiveMembers)
    /\ Raise("ExtractError")
    /\ UNCHANGED <<launcher, inputs, selection, disk, checksum, response, size, received,
                   extracted, error, message, history>>

\* Lines 234-235 and the end of the with block: _update() returns.
ExtractDone ==
    /\ pc = "extract"
    /\ extracted = Len(ArchiveMembers)
    /\ tmpdir' = FALSE
    /\ pc' = "finally"
    /\ UNCHANGED <<launcher, inputs, selection, disk, checksum, response, size, received,
                   extracted, failure, error, message, history>>

----------------------------------------------------------------------------
(* update(), after _update() *)

\* An except clause that re-raises without restoring.
ExceptWithoutRestore ==
    /\ pc = "except"
    /\ error' = failure
    /\ pc' = "finally"
    /\ UNCHANGED <<launcher, inputs, selection, disk, download, failure, message, history>>

\* Lines 145-152.  Without a backup the exception is re-raised.  With one,
\* copytree(lib_backup, lib) raises FileExistsError if lib is there, and that
\* exception replaces the one being handled; else lib becomes the backup, the
\* backup is removed and the exception is re-raised.
ExceptClause ==
    /\ pc = "except"
    /\ IF ~libBackup.exists
       THEN /\ error' = failure
            /\ UNCHANGED <<lib, libBackup>>
       ELSE IF CopyTreeRaisesExists(lib)
       THEN /\ error' = "FileExistsError"
            /\ UNCHANGED <<lib, libBackup>>
       ELSE /\ lib' = libBackup
            /\ libBackup' = NoDir
            /\ error' = failure
    /\ pc' = "finally"
    /\ UNCHANGED <<launcher, inputs, selection, bin, download, failure, message, history>>

\* A finally clause that does not remove lib-backup.
FinallyKeepsBackup ==
    /\ pc = "finally"
    /\ pc' = IF error # "none" THEN "raised" ELSE "make_bin"
    /\ UNCHANGED <<launcher, inputs, selection, disk, download, failure, error,
                   message, history>>

\* make_bin() called from within the finally clause: it runs whether or not
\* an exception is on its way out.
FinallyThenMakeBin ==
    /\ pc = "finally"
    /\ libBackup' = IF libBackup.exists THEN NoDir ELSE libBackup
    /\ pc' = "make_bin"
    /\ UNCHANGED <<launcher, inputs, selection, lib, bin, download, failure, error,
                   message, history>>

\* Lines 153-155: lib-backup is removed if it is there; an exception on its
\* way out leaves update() and handle().
FinallyClause ==
    /\ pc = "finally"
    /\ libBackup' = IF libBackup.exists THEN NoDir ELSE libBackup
    /\ pc' = IF error # "none" THEN "raised" ELSE "make_bin"
    /\ UNCHANGED <<launcher, inputs, selection, lib, bin, download, failure, error, message,
                   history>>

\* make_bin() whose failure is swallowed: update() goes on as if the
\* launcher had been written.
MakeBinSwallowsError ==
    /\ pc = "make_bin"
    /\ makeBinCalled' = TRUE
    /\ \/ \E outcomes \in ProbeOutcomes(windows) :
          /\ python' = WhichPython(AllowedExecutables(windows), outcomes)
          /\ bin' = "new"
       \/ \E b \in {bin, "partial"} :
          /\ bin' = b
          /\ python' = python
    /\ message' = "Poetry is installed now. Great!"
    /\ pc' = "done"
    /\ UNCHANGED <<windows, probes, inputs, selection, lib, libBackup, download,
                   failure, error, history>>

\* Lines 157-165 and make_bin(), lines 261-288: the launcher is written anew
\* with the interpreter _which_python() found, or making the directory or
\* writing the file raises and leaves the old launcher or a truncated one.
MakeBin ==
    /\ pc = "make_bin"
    /\ makeBinCalled' = TRUE
    /\ \/ \E outcomes \in ProbeOutcomes(windows) :
          /\ python' = WhichPython(AllowedExecutables(windows), outcomes)
          /\ bin' = "new"
          /\ message' = "Poetry is installed now. Great!"
          /\ pc' = "done"
          /\ error' = error
       \/ \E b \in {bin, "partial"} :
          /\ bin' = b
          /\ python' = python
          /\ message' = message
          /\ error' = "OSError"
          /\ pc' = "raised"
    /\ UNCHANGED <<windows, probes, inputs, selection, lib, libBackup, download,
                   failure, history>>

----------------------------------------------------------------------------

Next ==
    \/ CheckRecommendedInstallation
    \/ FindPackages
    \/ ChooseRelease
    \/ RemoveStaleBackup
    \/ BackupLib
    \/ RemoveLib
    \/ FetchChecksum
    \/ FetchArchive
    \/ StartDownload
    \/ ReadBlock
    \/ ReadFails
    \/ CheckHashes
    \/ ExtractMember
    \/ ExtractFails
    \/ ExtractDone
    \/ ExceptClause
    \/ FinallyClause
    \/ MakeBin

Spec == Init /\ [][Next]_vars

----------------------------------------------------------------------------
(* _which_python() on its own: every assignment of outcomes to the probes *)

\* make_bin() has been entered after a first install and _which_python() is
\* about to run; what each probe will do is drawn here.
InitWhichPython ==
    /\ pc = "which_python"
    /\ windows \in BOOLEAN
    /\ probes \in ProbeOutcomes(windows)
    /\ python = ""
    /\ makeBinCalled = TRUE
    /\ underHome = TRUE
    /\ preview = FALSE
    /\ currentVersion = [rel |-> 1, pre |-> FALSE]
    /\ packages = << >>
    /\ release = << [version |-> [rel |-> 1, pre |-> TRUE]] >>
    /\ \E p \in Payloads :
        /\ response = [payload |-> p, length |-> <<Len(p)>>]
        /\ lib = ArchiveTree(p)
        /\ checksum = HexDigest(p)
        /\ size = <<Len(p)>>
        /\ received = p
    /\ libBackup = NoDir
    /\ bin = "old"
    /\ extracted = Len(ArchiveMembers)
    /\ tmpdir = FALSE
    /\ failure = "none"
    /\ error = "none"
    /\ message = "Updating to"
    /\ lib0 = NoDir
    /\ libBackup0 = NoDir
    /\ catalogQueries = 1
    /\ httpRequests = 2
    /\ verified = TRUE
    /\ updateCalled = TRUE

\* Line 266: python_executable = self._which_python()
CallWhichPython ==
    /\ pc = "which_python"
    /\ python' = WhichPython(AllowedExecutables(windows), probes)
    /\ pc' = "which_python_returned"
    /\ UNCHANGED <<windows, probes, makeBinCalled, inputs, selection, disk,
                   download, failure, error, message, history>>

SpecWhichPython == InitWhichPython /\ [][CallWhichPython]_vars

----------------------------------------------------------------------------
(* Properties *)

Exited == pc \in {"done", "raised"}

\* handle() is past the selection of lines 99-123.
Selected == catalogQueries > 0 /\ pc # "sort"

DiskUntouched == lib = lib0 /\ libBackup = libBackup0 /\ bin = "old"

\* C1: once update() has returned or raised, either lib is the complete new
\* tree and lib-backup is gone, or lib is exactly the tree from before the
\* update, lib-backup is gone and an error was raised.
C1_NewOrRestored ==
    (updateCalled /\ Exited) =>
        \/ /\ response # NoResponse
           /\ lib = ArchiveTree(response.payload)
           /\ ~libBackup.exists
        \/ /\ lib = lib0
           /\ ~libBackup.exists
           /\ error # "none"

\* C2: if lib existed and _update() fails before anything is written into
\* lib, then at exit lib is exactly the tree from before the update,
\* lib-backup does not exist and that failure is raised to the caller.
C2_RestoredAfterFetchFailure ==
    (lib0.exists /\ failure # "none" /\ extracted = 0 /\ Exited) =>
        /\ lib = lib0
        /\ ~libBackup.exists
        /\ pc = "raised"
        /\ error = failure

C2_Witness ==
    /\ pc = "raised"
    /\ lib0.exists
    /\ failure = "ChecksumNotFound"
    /\ error = "ChecksumNotFound"
    /\ lib = OldTree
    /\ ~libBackup.exists

FetchFailures == {"ChecksumNotFound", "HTTPError", "ArchiveNotFound", "TypeError",
                  "ConnectionError", "HashMismatch"}

C4_NoPrereleaseWithoutPreview ==
    /\ (updateCalled /\ ~preview) =>
           (release # << >> /\ ~IsPrerelease(release[1]))
    /\ (/\ Selected
        /\ ~preview
        /\ packages # << >>
        /\ \A i \in 1..Len(packages) : IsPrerelease(packages[i])) =>
           /\ pc = "done"
           /\ message = "No new release found"
           /\ ~updateCalled
           /\ error = "none"

\* update() is entered with a stable release although a prerelease is the
\* highest candidate.
C4_Witness ==
    /\ pc = "update"
    /\ ~preview
    /\ release # << >>
    /\ \E i \in 1..Len(packages) :
        /\ IsPrerelease(packages[i])
        /\ \A j \in 1..Len(packages) :
            j # i => VersionLess(packages[j].version, packages[i].version)

Eligible == { packages[i] : i \in { j \in 1..Len(packages) :
                                      preview \/ ~IsPrerelease(packages[j]) } }

\* C5: the selected release is the eligible candidate of greatest version,
\* where every candidate is eligible with --preview and the stable ones are
\* without it; with no eligible candidate there is no release.
C5_GreatestEligible ==
    (Selected /\ packages # << >>) =>
        IF Eligible = {}
        THEN release = << >>
        ELSE /\ release # << >>
             /\ release[1] \in Eligible
             /\ \A e \in Eligible : ~VersionLess(release[1].version, e.version)

\* Candidates 1.1.0, 1.2.0 and 1.3.0-alpha without --preview: 1.2.0.
C5_Witness ==
    /\ pc = "update"
    /\ ~preview
    /\ { packages[i] : i \in 1..Len(packages) } =
           { [version |-> [rel |-> 1, pre |-> FALSE]],
             [version |-> [rel |-> 2, pre |-> FALSE]],
             [version |-> [rel |-> 3, pre |-> TRUE]] }
    /\ release = << [version |-> [rel |-> 2, pre |-> FALSE]] >>

\* C6: when no release is selected, or the selected release is the running
\* version, handle() prints its message and returns without calling
\* update(): lib, lib-backup and bin are as they were and no HTTP request
\* was made.
C6_NothingDoneWhenCurrentOrNone ==
    (Selected /\ (release = << >> \/ release[1].version = currentVersion)) =>
        /\ pc = "done"
        /\ error = "none"
        /\ message \in {"No release found for the specified version",
                        "No new release found",
                        "You are using the latest version"}
        /\ ~updateCalled
        /\ DiskUntouched
        /\ httpRequests = 0

C6_Witness ==
    /\ pc = "done"
    /\ message = "You are using the latest version"
    /\ release # << >>
    /\ lib = OldTree
    /\ libBackup = StaleTree
    /\ httpRequests = 0

\* C7: when the running code is not under the home directory, handle()
\* raises at once: no catalog query, no HTTP request, no change on disk.
C7_UnsupportedInstallationFailsFast ==
    (~underHome /\ pc # "handle") =>
        /\ pc = "raised"
        /\ error = "PoetrySimpleConsoleException"
        /\ catalogQueries = 0
        /\ httpRequests = 0
        /\ ~updateCalled
        /\ DiskUntouched

C7_Witness ==
    /\ ~underHome
    /\ pc = "raised"
    /\ error = "PoetrySimpleConsoleException"
    /\ lib0.exists

\* C8: after an update in which every step succeeded, lib holds exactly the
\* files of the downloaded archive, lib-backup does not exist and the
\* launcher was rewritten, whether or not lib existed before.
C8_CleanInstallAfterSuccess ==
    (updateCalled /\ pc = "done") =>
        /\ lib = ArchiveTree(response.payload)
        /\ ~libBackup.exists
        /\ bin = "new"
        /\ error = "none"

C8_Witness ==
    /\ updateCalled
    /\ pc = "done"
    /\ lib0 = OldTree
    /\ libBackup0 = StaleTree
    /\ lib.files["f1"] = "none"
    /\ lib.files["f3"] # "none"

\* C9: the digest and the checksum are compared without regard to letter
\* case, so a checksum equal to the digest up to case is never rejected.
C9_CaseInsensitiveComparison ==
    (failure = "HashMismatch") => Lower(checksum) # Lower(HexDigest(received))

\* C10: a missing Content-Length header does not make the update fail: with
\* an archive whose bytes hash to the checksum, _update() raises nothing on
\* account of the header.
C10_ContentLengthNotNeeded ==
    (/\ response # NoResponse
     /\ response.length = << >>
     /\ checksum = HexDigest(response.payload)
     /\ pc # "content_length") =>
        failure # "TypeError"

\* C11: whenever _update() raises and lib-backup exists (lib existed when
\* the run began), update() copies lib-backup back to lib, removes
\* lib-backup, and the exception that leaves it is the one _update() raised.
C11_RestoreKeepsOriginalFailure ==
    (lib0.exists /\ failure # "none" /\ Exited) =>
        /\ lib = lib0
        /\ ~libBackup.exists
        /\ error = failure

\* The first k members of the archive, extracted into an empty directory.
PrefixTree(k, payload) ==
    [exists |-> TRUE,
     files |-> [f \in FileNames |->
                  IF \E i \in 1..k : ArchiveMembers[i] = f
                  THEN MemberContent(payload) ELSE "none"]]

\* lib holds some, but not all, of the files of the downloaded archive.
LibHoldsPartOfNewTree ==
    /\ response # NoResponse
    /\ \E f \in FileNames :
        /\ lib.files[f] # "none"
        /\ lib.files[f] = ArchiveTree(response.payload).files[f]
    /\ \E f \in FileNames :
        /\ ArchiveTree(response.payload).files[f] # "none"
        /\ lib.files[f] # ArchiveTree(response.payload).files[f]

LibLostOldFile ==
    \E f \in FileNames : lib0.files[f] # "none" /\ lib.files[f] # lib0.files[f]

NewTreeComplete ==
    response # NoResponse /\ lib = ArchiveTree(response.payload)

\* C14: in every state in which lib has lost one of its pre-update files and
\* the new tree is not complete, lib-backup holds the full pre-update tree.
C14_BackupCompleteWhileLibIncomplete ==
    (updateCalled /\ LibLostOldFile /\ ~NewTreeComplete) => libBackup = lib0

\* update() is past lines 135-136.
PastStaleRemoval == updateCalled /\ pc # "update"

\* C15: a lib-backup left by an earlier run is removed first and never used:
\* from then on lib-backup holds only files copied from lib in this run, and
\* no file of the stale backup is ever in lib.
C15_StaleBackupNeverUsed ==
    /\ \A f \in FileNames : lib.files[f] # "stale"
    /\ PastStaleRemoval =>
           \A f \in FileNames : libBackup.files[f] \in {"none", lib0.files[f]}
    /\ (PastStaleRemoval /\ ~lib0.exists) => ~libBackup.exists

\* A failed first install with a stale backup on disk: nothing is restored.
C15_Witness ==
    /\ libBackup0 = StaleTree
    /\ ~lib0.exists
    /\ pc = "finally"
    /\ failure = "ChecksumNotFound"
    /\ error = failure
    /\ ~lib.exists

\* _update() has returned without raising.
UpdateCompleted ==
    /\ updateCalled
    /\ failure = "none"
    /\ extracted = Len(ArchiveMembers)
    /\ pc # "extract"

\* C16: make_bin() runs in a run if and only if _update() completed without
\* error, and after it: the launcher is never written before the new tree is
\* in place nor after a failed update, and every successful update leaves a
\* rewritten launcher.
C16_LauncherOnlyAfterUpdate ==
    /\ (pc = "make_bin" \/ makeBinCalled \/ bin # "old" \/ python # "") =>
           /\ UpdateCompleted
           /\ NewTreeComplete
           /\ ~libBackup.exists
    /\ (Exited /\ UpdateCompleted) => makeBinCalled
    /\ (updateCalled /\ pc = "done") => (bin = "new" /\ python # "")

C16_Witness ==
    /\ pc = "done"
    /\ lib0 = OldTree
    /\ NewTreeComplete
    /\ makeBinCalled
    /\ bin = "new"
    /\ python = "python3"

\* The candidates, by index, that ran and printed a version of major >= 3,
\* and those that ran at all.
ReportsPython3 ==
    { i \in DOMAIN probes :
        /\ probes[i].ran
        /\ probes[i].raw.name = "Python"
        /\ probes[i].raw.patch # ""
        /\ probes[i].raw.major >= 3 }

RanAtAll == { i \in DOMAIN probes : probes[i].ran }

First(indices) == CHOOSE i \in indices : \A j \in indices : i <= j

\* C17: _which_python() returns the first candidate, in list order, that
\* reports a major version >= 3; if there is none, the first candidate that
\* ran; if none ran, "python".
C17_FirstPython3ThenFirstRan ==
    (pc = "which_python_returned") =>
        python = IF ReportsPython3 # {}
                 THEN AllowedExecutables(windows)[First(ReportsPython3)]
                 ELSE IF RanAtAll # {}
                 THEN AllowedExecutables(windows)[First(RanAtAll)]
                 ELSE "python"

\* python is Python 2, python3 is missing, py.exe -3 is Python 3 and
\* py.exe -2 is Python 2: py.exe -3 is returned, not a fallback.
C17_Witness ==
    /\ pc = "which_python_returned"
    /\ windows
    /\ probes[1].ran /\ probes[1].raw.major = 2
    /\ ~probes[2].ran
    /\ probes[3].ran /\ probes[3].raw.major = 3 /\ probes[3].raw.patch # ""
    /\ probes[4].ran /\ probes[4].raw.major = 2
    /\ python = "py.exe -3"

\* C18: once update() has left its try statement, by return or by any
\* exception, also one raised by the restoring copy, lib-backup does not
\* exist.
C18_NoBackupAfterTry ==
    (httpRequests > 0 /\ pc \in {"make_bin", "done", "raised"}) =>
        ~libBackup.exists

C18_Witness ==
    /\ pc = "raised"
    /\ error = "FileExistsError"
    /\ lib0 = OldTree
    /\ lib # lib0
    /\ ~libBackup.exists

\* C19: a failure of make_bin() after a successful _update() is not rolled
\* back: the error reaches the caller while lib holds the complete new tree
\* and lib-backup is already gone.
C19_MakeBinFailureNotRolledBack ==
    (Exited /\ UpdateCompleted /\ bin # "new") =>
        /\ pc = "raised"
        /\ error = "OSError"
        /\ makeBinCalled
        /\ NewTreeComplete
        /\ lib # lib0
        /\ ~libBackup.exists

C19_Witness ==
    /\ pc = "raised"
    /\ error = "OSError"
    /\ lib0 = OldTree
    /\ NewTreeComplete
    /\ ~libBackup.exists
    /\ bin = "partial"
====
